---- MODULE Spec2Model ----
(***************************************************************************)
(* A model of the rebel benchmark pipeline                                 *)
(*   Extractor -> Collector -> Evaluator -> Aggregator -> Saver            *)
(* as run by Workflow.execute.                                             *)
(*                                                                         *)
(* Representation                                                          *)
(*   - str values are TLA+ strings, f-strings are \o concatenations;      *)
(*   - a dict is a sequence of <<key, value>> pairs in insertion order;    *)
(*   - a float score is an exact fraction <<numerator, denominator>> in    *)
(*     lowest terms;                                                       *)
(*   - a Metric object is a record [id, name]: id is the object's          *)
(*     identity, name is what get_name() returns;                          *)
(*   - a call that may raise returns [exc |-> "none" or the exception's    *)
(*     class, value |-> the returned value].                               *)
(*   - where texts are searched (the Extractor's filters) a text is the    *)
(*     sequence of its characters.                                         *)
(***************************************************************************)
EXTENDS Integers, Sequences, FiniteSets, TLC

VARIABLES
    pc,                     \* position of Workflow.execute
    extractor,              \* the Extractor's keyword, tags and exclude_tags
    pbar,                   \* the Collector's progress counter pbar.n
    lock,                   \* the Collector's lock: 0, or the task holding it
    num_workers,            \* [collector |-> Collector.num_workers, evaluator |-> Evaluator.num_workers]
    test_suites,            \* the registry test_case_registry.test_suites
    test_cases,             \* local of Workflow.execute
    test_attempts,          \* local of Workflow.execute
    collect_state,          \* per attempt: the state of its worker(attempt) task
    test_attempts_executed, \* local of Workflow.execute
    evaluation_attempts,    \* local of Workflow.execute
    evaluate_state,         \* per pair: the state of its evaluate_single_attempt task
    evaluation_results,     \* local of Workflow.execute
    test_cases_evaluated,   \* local of Workflow.execute
    report                  \* the files Saver.save_to_json wrote

vars == <<pc, extractor, pbar, lock, num_workers, test_suites, test_cases, test_attempts, collect_state,
          test_attempts_executed, evaluation_attempts, evaluate_state,
          evaluation_results, test_cases_evaluated, report>>

----------------------------------------------------------------------------
(* Bounds of the model *)

MaxRetry == 2       \* largest RetryParams.count of a registered suite
MaxGroup == 3       \* most attempts of the group aggregated on its own
MaxEvals == 2       \* most evaluated attempts of a batch aggregated on its own
MaxWorkers == 2     \* largest num_workers
MaxKeys == 2        \* most keys of a parameter grid expanded on its own
MaxOptions == 2     \* most options of one key of such a grid
MaxCalls == 2       \* most tool calls of an expected or an actual output
MaxSuites == 2      \* most suites in the registry the filters are applied to
MaxUnits == 4       \* most units of work (requests plus measure calls) of one run

----------------------------------------------------------------------------
(* Generic helpers *)

Range(s) == {s[i] : i \in 1..Len(s)}

RECURSIVE SumSeq(_)
SumSeq(s) == IF s = <<>> THEN 0 ELSE Head(s) + SumSeq(Tail(s))

RECURSIVE Concat(_)
Concat(ss) == IF ss = <<>> THEN <<>> ELSE Head(ss) \o Concat(Tail(ss))

RECURSIVE GCD(_, _)
GCD(a, b) == IF b = 0 THEN a ELSE GCD(b, a % b)

\* the float n/d (d > 0, n >= 0)
Frac(n, d) == LET g == GCD(n, d) IN <<n \div g, d \div g>>

FracLess(a, b) == a[1] * b[2] < b[1] * a[2]

----------------------------------------------------------------------------
(* rebel.models *)

Verdicts == {"passed", "failed", "error"}

\* RetryAggregationStrategy, and None, which Optional[...] admits
Strategies == {"min", "max", "mean", "median", "None"}

RetryParams(count, aggregation_strategy) ==
    [count |-> count, aggregation_strategy |-> aggregation_strategy]

EvaluationResult(score, verdict, reason) ==
    [score |-> score, verdict |-> verdict, reason |-> reason]

Metric(id, name) == [id |-> id, name |-> name]

get_name(metric) == metric.name

----------------------------------------------------------------------------
(* dict and str helpers *)

DictKeys(d) == {d[i][1] : i \in 1..Len(d)}

\* d[k] = v
DictSet(d, k, v) ==
    IF k \in DictKeys(d)
    THEN [i \in 1..Len(d) |-> IF d[i][1] = k THEN <<k, v>> ELSE d[i]]
    ELSE Append(d, <<k, v>>)

RECURSIVE DictUpdate_keep(_, _)
\* faulty variant: a key already in d keeps its value
DictUpdate_keep(d, e) ==
    IF e = <<>> THEN d
    ELSE DictUpdate_keep(IF Head(e)[1] \in DictKeys(d) THEN d
                         ELSE Append(d, Head(e)), Tail(e))

RECURSIVE DictUpdate(_, _)
\* {**d, **e}
DictUpdate(d, e) ==
    IF e = <<>> THEN d
    ELSE DictUpdate(DictSet(d, Head(e)[1], Head(e)[2]), Tail(e))

\* a grid value is [t |-> its Python type, s |-> what str() gives for it]
str(v) == v.s

RECURSIVE join(_, _)
\* sep.join(parts)
join(sep, parts) ==
    IF parts = <<>> THEN ""
    ELSE IF Len(parts) = 1 THEN parts[1]
    ELSE parts[1] \o sep \o join(sep, Tail(parts))

----------------------------------------------------------------------------
(* ParameterGrid.expand *)

RECURSIVE product_last_slowest(_)
\* faulty variant: the last list varies slowest
product_last_slowest(values) ==
    IF values = <<>> THEN << <<>> >>
    ELSE LET first == Head(values)
             rest == product_last_slowest(Tail(values))
         IN Concat([j \in 1..Len(rest) |->
                       [i \in 1..Len(first) |-> <<first[i]>> \o rest[j]]])

RECURSIVE product(_)
\* itertools.product(*values): the first list varies slowest
product(values) ==
    IF values = <<>> THEN << <<>> >>
    ELSE LET first == Head(values)
             rest == product(Tail(values))
         IN Concat([i \in 1..Len(first) |->
                       [j \in 1..Len(rest) |-> <<first[i]>> \o rest[j]]])

expand(parameters) ==
    LET keys == [i \in 1..Len(parameters) |-> parameters[i][1]]
        values == [i \in 1..Len(parameters) |-> parameters[i][2]]
        combos == product(values)
    IN [c \in 1..Len(combos) |->
           [i \in 1..Len(keys) |-> <<keys[i], combos[c][i]>>]]

----------------------------------------------------------------------------
(* Extractor *)

\* what a call that may raise gives: a value, or the exception it raised
Returned(value) == [exc |-> "none", value |-> value]
Raised(exc) == [exc |-> exc, value |-> <<>>]

\* a text is the sequence of its characters; Python's `sub in text`
Contains(sub, text) ==
    \E k \in 0..(Len(text) - Len(sub)) : SubSeq(text, k + 1, k + Len(sub)) = sub

\* str.lower() on the letters of the model
lower(text) ==
    [i \in 1..Len(text) |->
        CASE text[i] = "A" -> "a" [] text[i] = "B" -> "b" [] OTHER -> text[i]]

\* Extractor.__init__; an option that is None or "" is the empty text
Extractor(keyword, tags, exclude_tags) ==
    [keyword |-> keyword, tags |-> tags, exclude_tags |-> exclude_tags]

\* list.remove(x): the list without its first element equal to x
list_remove(list, x) ==
    IF x \notin Range(list) THEN Raised("ValueError")
    ELSE LET k == CHOOSE i \in 1..Len(list) :
                      list[i] = x /\ \A h \in 1..(i - 1) : list[h] # x
         IN Returned(SubSeq(list, 1, k - 1) \o SubSeq(list, k + 1, Len(list)))

RECURSIVE remove_each(_, _)
\* one filter's loop: filtered_suites.remove(suite) for the suites that fail it
remove_each(filtered_suites, failing) ==
    IF failing = <<>> THEN Returned(filtered_suites)
    ELSE LET r == list_remove(filtered_suites, Head(failing))
         IN IF r.exc # "none" THEN r ELSE remove_each(r.value, Tail(failing))

\* any(tag in tags for tag in suite.tags), tags being one text
any_tag_in(suite, tags) == \E i \in 1..Len(suite.tags) : Contains(suite.tags[i], tags)

\* Extractor.exctract_test_suites once the test modules are imported: each
\* filter that is set loops over the whole registry and removes from the copy
exctract_test_suites(self, registered) ==
    IF self.keyword = <<>> /\ self.tags = <<>> /\ self.exclude_tags = <<>>
    THEN Returned(registered)
    ELSE LET by_keyword ==
                 IF self.keyword # <<>>
                 THEN remove_each(registered, SelectSeq(registered, LAMBDA suite :
                          ~Contains(lower(self.keyword), suite.name)))
                 ELSE Returned(registered)
             by_tags ==
                 IF by_keyword.exc = "none" /\ self.tags # <<>>
                 THEN remove_each(by_keyword.value, SelectSeq(registered, LAMBDA suite :
                          suite.tags = <<>> \/ ~any_tag_in(suite, self.tags)))
                 ELSE by_keyword
             by_exclude_tags ==
                 IF by_tags.exc = "none" /\ self.exclude_tags # <<>>
                 THEN remove_each(by_tags.value, SelectSeq(registered, LAMBDA suite :
                          suite.tags # <<>> /\ any_tag_in(suite, self.exclude_tags)))
                 ELSE by_tags
         IN by_exclude_tags

TestSuite(name, tags, retry_params, messages, api_params, parameter_grid, expected_output, metrics) ==
    [name |-> name, tags |-> tags, retry_params |-> retry_params,
     messages |-> messages, api_params |-> api_params,
     parameter_grid |-> parameter_grid, expected_output |-> expected_output,
     metrics |-> metrics]

unfld_test_suite(test_suite) ==
    LET parameter_combinations == expand(test_suite.parameter_grid)
        case_of(param_combo) ==
            LET merged_api_params == DictUpdate(test_suite.api_params, param_combo)
                param_suffix ==
                    join("_", [i \in 1..Len(param_combo) |->
                                  param_combo[i][1] \o "=" \o str(param_combo[i][2])])
            IN [name |-> test_suite.name \o "_[" \o param_suffix \o "]",
                tags |-> test_suite.tags,
                retry_params |-> test_suite.retry_params,
                input |-> [messages |-> test_suite.messages,
                           api_params |-> merged_api_params],
                expected_output |-> test_suite.expected_output,
                metrics |-> test_suite.metrics]
    IN [c \in 1..Len(parameter_combinations) |->
           case_of(parameter_combinations[c])]

unfold_test_suites(suites) ==
    Concat([i \in 1..Len(suites) |-> unfld_test_suite(suites[i])])

\* faulty variant: attempts are numbered from 1
TestAttempt_from_one(test_case, number) ==
    [name |-> test_case.name, tags |-> test_case.tags,
     retry_params |-> test_case.retry_params,
     input |-> test_case.input, expected_output |-> test_case.expected_output,
     metrics |-> test_case.metrics, number |-> number + 1]

\* TestAttempt.model_validate({**test_case.model_dump(), 'metrics': ..., 'number': n})
TestAttempt(test_case, number) ==
    [name |-> test_case.name, tags |-> test_case.tags,
     retry_params |-> RetryParams(test_case.retry_params.count,
                                  test_case.retry_params.aggregation_strategy),
     input |-> test_case.input, expected_output |-> test_case.expected_output,
     metrics |-> test_case.metrics, number |-> number]

unfold_test_cases(cases) ==
    Concat([i \in 1..Len(cases) |->
               [k \in 1..cases[i].retry_params.count |->
                   TestAttempt(cases[i], k - 1)]])

\* TestAttempt.get_name
attempt_name(test_attempt) ==
    test_attempt.name \o "_[Attempt " \o ToString(test_attempt.number) \o "]"

----------------------------------------------------------------------------
(* Collector and Evaluator: the records they build *)

\* TestAttemptExecuted.model_validate({**test_attempt.model_dump(), 'metrics': ...,
\*                                     'actual_output': test_attempt_result})
TestAttemptExecuted(test_attempt, test_attempt_result) ==
    [name |-> test_attempt.name, tags |-> test_attempt.tags,
     retry_params |-> test_attempt.retry_params,
     input |-> test_attempt.input,
     expected_output |-> test_attempt.expected_output,
     metrics |-> test_attempt.metrics, number |-> test_attempt.number,
     actual_output |-> test_attempt_result]

EvaluationAttempt(test_attempt, metric) ==
    [name |-> test_attempt.name, tags |-> test_attempt.tags,
     retry_params |-> test_attempt.retry_params,
     input |-> test_attempt.input,
     expected_output |-> test_attempt.expected_output,
     metrics |-> test_attempt.metrics, number |-> test_attempt.number,
     actual_output |-> test_attempt.actual_output, metric |-> metric]

\* faulty variant: only the first metric of an attempt is paired with it
unfold_test_attempts_first_metric(test_attempt_executed) ==
    Concat([i \in 1..Len(test_attempt_executed) |->
               IF test_attempt_executed[i].metrics = <<>> THEN <<>>
               ELSE <<EvaluationAttempt(test_attempt_executed[i],
                                        test_attempt_executed[i].metrics[1])>>])

unfold_test_attempts(test_attempt_executed) ==
    Concat([i \in 1..Len(test_attempt_executed) |->
               [m \in 1..Len(test_attempt_executed[i].metrics) |->
                   EvaluationAttempt(test_attempt_executed[i],
                                     test_attempt_executed[i].metrics[m])]])

\* faulty variant: the metric list is narrowed to the metric measured
EvaluationAttemptEvaluated_one_metric(evaluation_attempt, result) ==
    [name |-> evaluation_attempt.name, tags |-> evaluation_attempt.tags,
     retry_params |-> evaluation_attempt.retry_params,
     input |-> evaluation_attempt.input,
     expected_output |-> evaluation_attempt.expected_output,
     metrics |-> <<evaluation_attempt.metric>>,
     number |-> evaluation_attempt.number,
     actual_output |-> evaluation_attempt.actual_output,
     metric |-> evaluation_attempt.metric,
     evaluation_result |-> result]

EvaluationAttemptEvaluated(evaluation_attempt, result) ==
    [name |-> evaluation_attempt.name, tags |-> evaluation_attempt.tags,
     retry_params |-> evaluation_attempt.retry_params,
     input |-> evaluation_attempt.input,
     expected_output |-> evaluation_attempt.expected_output,
     metrics |-> evaluation_attempt.metrics,
     number |-> evaluation_attempt.number,
     actual_output |-> evaluation_attempt.actual_output,
     metric |-> evaluation_attempt.metric,
     evaluation_result |-> result]

\* faulty variant: a raising metric is reported as FAILED
measure_failed_as_failed(message) == EvaluationResult(<<0, 1>>, "failed", message)

\* the except branch of evaluate_single_attempt
measure_failed(message) == EvaluationResult(<<0, 1>>, "error", message)

----------------------------------------------------------------------------
(* Aggregator *)

\* faulty variant: the first score instead of the smallest
min_first(scores) == scores[1]

\* faulty variant: the first score instead of the largest
max_first(scores) == scores[1]

RECURSIVE min(_)
min(scores) ==
    IF Len(scores) = 1 THEN scores[1]
    ELSE LET m == min(Tail(scores))
         IN IF FracLess(m, Head(scores)) THEN m ELSE Head(scores)

RECURSIVE max(_)
max(scores) ==
    IF Len(scores) = 1 THEN scores[1]
    ELSE LET m == max(Tail(scores))
         IN IF FracLess(Head(scores), m) THEN m ELSE Head(scores)

RECURSIVE fsum(_)
fsum(scores) ==
    IF scores = <<>> THEN <<0, 1>>
    ELSE LET a == Head(scores)
             b == fsum(Tail(scores))
         IN Frac(a[1] * b[2] + b[1] * a[2], a[2] * b[2])

\* statistics.mean
mean(scores) == LET t == fsum(scores) IN Frac(t[1], t[2] * Len(scores))

RECURSIVE sorted(_)
sorted(scores) ==
    IF scores = <<>> THEN <<>>
    ELSE LET x == scores[Len(scores)]
             front == sorted(SubSeq(scores, 1, Len(scores) - 1))
             le == SelectSeq(front, LAMBDA y : ~FracLess(x, y))
             gt == SelectSeq(front, LAMBDA y : FracLess(x, y))
         IN le \o <<x>> \o gt

\* statistics.median
median(scores) ==
    LET data == sorted(scores)
        n == Len(data)
    IN IF n % 2 = 1 THEN data[(n + 1) \div 2]
       ELSE LET a == data[n \div 2]
                b == data[n \div 2 + 1]
            IN Frac(a[1] * b[2] + b[1] * a[2], 2 * a[2] * b[2])

\* faulty variant: ERROR members are not filtered out
non_error_keep_all(evaluations) == evaluations

\* faulty variant: a tie counts as PASSED
majority_ties_pass(verdicts) ==
    LET passed_count == Cardinality({i \in 1..Len(verdicts) : verdicts[i] = "passed"})
        failed_count == Len(verdicts) - passed_count
    IN IF passed_count >= failed_count THEN "passed" ELSE "failed"

\* the evaluations whose verdict is not ERROR
non_error(evaluations) ==
    SelectSeq(evaluations, LAMBDA e : e.evaluation_result.verdict # "error")

\* the majority vote of MEAN and MEDIAN
majority(verdicts) ==
    LET passed_count == Cardinality({i \in 1..Len(verdicts) : verdicts[i] = "passed"})
        failed_count == Len(verdicts) - passed_count
    IN IF passed_count > failed_count THEN "passed" ELSE "failed"

aggregate_evaluation_result(evaluations) ==
    IF evaluations = <<>> THEN Raised("ValueError")
    ELSE
    LET aggregation_strategy == evaluations[1].retry_params.aggregation_strategy
        kept == non_error(evaluations)
        scores == [i \in 1..Len(kept) |-> kept[i].evaluation_result.score]
        verdicts == [i \in 1..Len(kept) |-> kept[i].evaluation_result.verdict]
    IN IF kept = <<>>
       THEN Returned(EvaluationResult(<<0, 1>>, "error",
                                      "All evaluation attempts failed"))
       ELSE CASE aggregation_strategy = "min" ->
                   Returned(EvaluationResult(min(scores),
                       IF "failed" \in Range(verdicts) THEN "failed" ELSE "passed", ""))
              [] aggregation_strategy = "max" ->
                   Returned(EvaluationResult(max(scores),
                       IF "passed" \in Range(verdicts) THEN "passed" ELSE "failed", ""))
              [] aggregation_strategy = "mean" ->
                   Returned(EvaluationResult(mean(scores), majority(verdicts), ""))
              [] aggregation_strategy = "median" ->
                   Returned(EvaluationResult(median(scores), majority(verdicts), ""))
              [] OTHER -> Raised("UnboundLocalError")  \* score is never bound

\* the key of grouped_evaluation_results
group_name(evaluation_result) ==
    evaluation_result.name \o "_[" \o get_name(evaluation_result.metric) \o "]"

RECURSIVE group_names(_, _)
\* the keys of grouped_evaluation_results, in insertion order
group_names(evaluations, seen) ==
    IF evaluations = <<>> THEN <<>>
    ELSE LET k == group_name(Head(evaluations))
         IN IF k \in seen THEN group_names(Tail(evaluations), seen)
            ELSE <<k>> \o group_names(Tail(evaluations), seen \cup {k})

RECURSIVE sort_by_number(_)
\* list.sort(key=lambda x: x.number): stable
sort_by_number(group) ==
    IF group = <<>> THEN <<>>
    ELSE LET x == group[Len(group)]
             front == sort_by_number(SubSeq(group, 1, Len(group) - 1))
             le == SelectSeq(front, LAMBDA y : y.number <= x.number)
             gt == SelectSeq(front, LAMBDA y : y.number > x.number)
         IN le \o <<x>> \o gt

group_evaluations(evaluations, key) ==
    sort_by_number(SelectSeq(evaluations, LAMBDA e : group_name(e) = key))

\* an Evaluated Test Case that records only the attempts that were aggregated
TestCaseEvaluated_aggregated_only(group, aggregated_result) ==
    [name |-> group[1].name, tags |-> group[1].tags,
     retry_params |-> group[1].retry_params, input |-> group[1].input,
     expected_output |-> group[1].expected_output,
     metrics |-> group[1].metrics,
     actual_outputs |-> [i \in 1..Len(group) |-> group[i].actual_output],
     evaluation_results |->
         [i \in 1..Len(non_error(group)) |-> non_error(group)[i].evaluation_result],
     aggregated_result |-> aggregated_result]

TestCaseEvaluated(group, aggregated_result) ==
    [name |-> group[1].name, tags |-> group[1].tags,
     retry_params |-> group[1].retry_params, input |-> group[1].input,
     expected_output |-> group[1].expected_output,
     metrics |-> group[1].metrics,
     actual_outputs |-> [i \in 1..Len(group) |-> group[i].actual_output],
     evaluation_results |-> [i \in 1..Len(group) |-> group[i].evaluation_result],
     aggregated_result |-> aggregated_result]

\* the grouping and the loop over the groups: the Evaluated Test Cases in the
\* order of the groups' first members, or the exception of the first group
\* whose aggregation raises
aggregate_groups(evaluations) ==
    LET keys == group_names(evaluations, {})
        aggregated == [g \in 1..Len(keys) |->
            aggregate_evaluation_result(group_evaluations(evaluations, keys[g]))]
    IN IF \E g \in 1..Len(keys) : aggregated[g].exc # "none"
       THEN Raised(aggregated[CHOOSE g \in 1..Len(keys) :
                        /\ aggregated[g].exc # "none"
                        /\ \A h \in 1..(g - 1) : aggregated[h].exc = "none"].exc)
       ELSE Returned([g \in 1..Len(keys) |->
                TestCaseEvaluated(group_evaluations(evaluations, keys[g]),
                                  aggregated[g].value)])

\* an aggregation that refuses an empty list
aggregate_evaluation_results_refuse_empty(evaluations) ==
    IF evaluations = <<>> THEN Raised("ValueError")
    ELSE aggregate_groups(evaluations)

\* Aggregator.aggregate_evaluation_results: an empty list is returned as is
aggregate_evaluation_results(evaluations) ==
    IF evaluations = <<>> THEN Returned(<<>>)
    ELSE aggregate_groups(evaluations)

----------------------------------------------------------------------------
(* Saver *)

\* the files save_to_json writes: none when it returns before opening one
save_to_json(cases) ==
    IF cases = <<>> THEN <<>>
    ELSE <<[total_test_cases |-> Len(cases), test_cases |-> cases]>>

----------------------------------------------------------------------------
(* The capabilities the pipeline calls: what a call may do *)

\* the AssistantOutput values a request may return
AssistantOutputs == {"answer"}

\* api_client.request(input) returns a value or raises; "None" stands for a
\* returned value that TestAttemptExecuted.model_validate rejects
RequestOutcomes ==
    {[kind |-> "returned", value |-> v] : v \in AssistantOutputs \cup {"None"}}
    \cup {[kind |-> "raised", value |-> "request failed"]}

\* metric.measure(...) returns an EvaluationResult or raises
MeasureOutcomes ==
    {[kind |-> "returned", value |-> EvaluationResult(<<1, 1>>, "passed", "good")],
     [kind |-> "returned", value |-> EvaluationResult(<<0, 1>>, "failed", "bad")],
     [kind |-> "raised", value |-> [message |-> "measure failed"]]}

----------------------------------------------------------------------------
(* Collector.collect_test_results and Evaluator.evaluate, task by task *)

\* calls counts the invocations of the capability (request or measure) for the task
Pending == [st |-> "pending", outcome |-> [kind |-> "none", value |-> "none"],
            result |-> <<>>, calls |-> 0]

\* the tasks a thread of the pool is working on
Running(tasks) == {i \in 1..Len(tasks) : tasks[i].st \notin {"pending", "done"}}

\* faulty variant: a thread per task
MayStart_unbounded(tasks, i, n_jobs) ==
    /\ tasks[i].st = "pending"
    /\ \A j \in 1..(i - 1) : tasks[j].st # "pending"

\* joblib hands the tasks to the pool in input order, n_jobs at a time
MayStart(tasks, i, n_jobs) ==
    /\ tasks[i].st = "pending"
    /\ \A j \in 1..(i - 1) : tasks[j].st # "pending"
    /\ Cardinality(Running(tasks)) < n_jobs

\* faulty variant: the pool returns once every task was handed to a thread
AllDone_dispatched(tasks) == \A i \in 1..Len(tasks) : tasks[i].st # "pending"

AllDone(tasks) == \A i \in 1..Len(tasks) : tasks[i].st = "done"

\* what worker(test_attempt) returns: <<>> is None
worker(test_attempt, response) ==
    IF response.kind = "raised" THEN <<>>
    ELSE IF response.value \notin AssistantOutputs THEN <<>>  \* ValidationError, caught
    ELSE <<TestAttemptExecuted(test_attempt, response.value)>>

\* the calls of pbar.update() of one worker: one after the request returned,
\* one in the except branch
progress_updates(test_attempt, response) ==
    (IF response.kind = "returned" THEN 1 ELSE 0)
        + (IF worker(test_attempt, response) = <<>> THEN 1 ELSE 0)

RECURSIVE until_none(_)
until_none(results) ==
    IF results = <<>> \/ Head(results) = <<>> THEN <<>>
    ELSE Head(results) \o until_none(Tail(results))

\* faulty variant: the results after the first None are lost
collected_until_none(tasks) == until_none([i \in 1..Len(tasks) |-> tasks[i].result])

\* results = [result for result in results if result]
collected(tasks) == Concat([i \in 1..Len(tasks) |-> tasks[i].result])

evaluate_single_attempt(evaluation_attempt, measured) ==
    EvaluationAttemptEvaluated(evaluation_attempt,
        IF measured.kind = "raised" THEN measure_failed(measured.value.message)
        ELSE measured.value)

----------------------------------------------------------------------------
(* Workflow.execute *)

ExtractSuites ==
    /\ pc = "extract"
    /\ LET r == exctract_test_suites(extractor, test_suites)
       IN IF r.exc = "none"
          THEN /\ test_suites' = r.value
               /\ pc' = "unfold_suites"
          ELSE /\ test_suites' = test_suites   \* raised before test_suites.clear()
               /\ pc' = "raised"
    /\ UNCHANGED <<extractor, pbar, lock, num_workers, test_cases, test_attempts,
                   collect_state, test_attempts_executed, evaluation_attempts,
                   evaluate_state, evaluation_results, test_cases_evaluated, report>>

UnfoldSuites ==
    /\ pc = "unfold_suites"
    /\ test_cases' = unfold_test_suites(test_suites)
    /\ pc' = "unfold_cases"
    /\ UNCHANGED <<extractor, pbar, lock, num_workers, test_suites, test_attempts, collect_state,
                   test_attempts_executed, evaluation_attempts, evaluate_state,
                   evaluation_results, test_cases_evaluated, report>>

UnfoldCases ==
    /\ pc = "unfold_cases"
    /\ test_attempts' = unfold_test_cases(test_cases)
    /\ collect_state' = [i \in 1..Len(test_attempts') |-> Pending]
    /\ pc' = "collect"
    /\ UNCHANGED <<extractor, pbar, lock, num_workers, test_suites, test_cases, test_attempts_executed,
                   evaluation_attempts, evaluate_state, evaluation_results,
                   test_cases_evaluated, report>>

CollectStart(i) ==
    /\ pc = "collect"
    /\ MayStart(collect_state, i, num_workers.collector)
    /\ collect_state' = [collect_state EXCEPT ![i].st = "running",
                                              ![i].calls = @ + 1]
    /\ UNCHANGED <<pc, extractor, pbar, lock, num_workers, test_suites, test_cases, test_attempts,
                   test_attempts_executed, evaluation_attempts, evaluate_state,
                   evaluation_results, test_cases_evaluated, report>>

\* faulty variant: an attempt whose request raised is submitted again
CollectFinish_resubmit(i, response) ==
    /\ pc = "collect"
    /\ collect_state[i].st = "running"
    /\ collect_state' = [collect_state EXCEPT
           ![i].st = IF response.kind = "raised" THEN "pending" ELSE "done",
           ![i].outcome = response,
           ![i].result = worker(test_attempts[i], response)]
    /\ pbar' = pbar + progress_updates(test_attempts[i], response)
    /\ UNCHANGED <<pc, extractor, lock, num_workers, test_suites, test_cases, test_attempts,
                   test_attempts_executed, evaluation_attempts, evaluate_state,
                   evaluation_results, test_cases_evaluated, report>>

CollectFinish(i, response) ==
    /\ pc = "collect"
    /\ collect_state[i].st = "running"
    /\ collect_state' = [collect_state EXCEPT
           ![i].st = "done", ![i].outcome = response,
           ![i].result = worker(test_attempts[i], response)]
    /\ pbar' = pbar + progress_updates(test_attempts[i], response)
    /\ UNCHANGED <<pc, extractor, lock, num_workers, test_suites, test_cases, test_attempts,
                   test_attempts_executed, evaluation_attempts, evaluate_state,
                   evaluation_results, test_cases_evaluated, report>>

CollectReturn ==
    /\ pc = "collect"
    /\ AllDone(collect_state)
    /\ test_attempts_executed' = collected(collect_state)
    /\ pc' = "unfold_attempts"
    /\ UNCHANGED <<extractor, pbar, lock, num_workers, test_suites, test_cases, test_attempts,
                   collect_state, evaluation_attempts, evaluate_state,
                   evaluation_results, test_cases_evaluated, report>>

UnfoldAttempts ==
    /\ pc = "unfold_attempts"
    /\ evaluation_attempts' = unfold_test_attempts(test_attempts_executed)
    /\ evaluate_state' = [i \in 1..Len(evaluation_attempts') |-> Pending]
    /\ pc' = "evaluate"
    /\ UNCHANGED <<extractor, pbar, lock, num_workers, test_suites, test_cases, test_attempts,
                   collect_state, test_attempts_executed, evaluation_results,
                   test_cases_evaluated, report>>

EvaluateStart(i) ==
    /\ pc = "evaluate"
    /\ MayStart(evaluate_state, i, num_workers.evaluator)
    /\ evaluate_state' = [evaluate_state EXCEPT ![i].st = "running",
                                                ![i].calls = @ + 1]
    /\ UNCHANGED <<pc, extractor, pbar, lock, num_workers, test_suites, test_cases, test_attempts,
                   collect_state, test_attempts_executed, evaluation_attempts,
                   evaluation_results, test_cases_evaluated, report>>

EvaluateFinish(i, measured) ==
    /\ pc = "evaluate"
    /\ evaluate_state[i].st = "running"
    /\ evaluate_state' = [evaluate_state EXCEPT
           ![i].st = "done", ![i].outcome = measured,
           ![i].result = <<evaluate_single_attempt(evaluation_attempts[i], measured)>>]
    /\ UNCHANGED <<pc, extractor, pbar, lock, num_workers, test_suites, test_cases, test_attempts,
                   collect_state, test_attempts_executed, evaluation_attempts,
                   evaluation_results, test_cases_evaluated, report>>

EvaluateReturn ==
    /\ pc = "evaluate"
    /\ AllDone(evaluate_state)
    /\ evaluation_results' = collected(evaluate_state)
    /\ pc' = "aggregate"
    /\ UNCHANGED <<extractor, pbar, lock, num_workers, test_suites, test_cases, test_attempts,
                   collect_state, test_attempts_executed, evaluation_attempts,
                   evaluate_state, test_cases_evaluated, report>>

Aggregate ==
    /\ pc = "aggregate"
    /\ LET r == aggregate_evaluation_results(evaluation_results)
       IN IF r.exc = "none"
          THEN /\ test_cases_evaluated' = r.value
               /\ pc' = "save"
          ELSE /\ test_cases_evaluated' = test_cases_evaluated
               /\ pc' = "raised"   \* the exception leaves Workflow.execute
    /\ UNCHANGED <<extractor, pbar, lock, num_workers, test_suites, test_cases, test_attempts,
                   collect_state, test_attempts_executed, evaluation_attempts,
                   evaluate_state, evaluation_results, report>>

Save ==
    /\ pc = "save"
    /\ report' = save_to_json(test_cases_evaluated)
    /\ pc' = "done"
    /\ UNCHANGED <<extractor, pbar, lock, num_workers, test_suites, test_cases, test_attempts,
                   collect_state, test_attempts_executed, evaluation_attempts,
                   evaluate_state, evaluation_results, test_cases_evaluated>>

----------------------------------------------------------------------------
(* The run of a benchmark: Workflow.execute on a registry of suites *)

\* the names of the decorated functions
SuiteNames == {"s", "t"}

\* two metric objects may give the same get_name()
MetricLists ==
    {<<>>, <<Metric(1, "m")>>, <<Metric(1, "m"), Metric(2, "m")>>,
     <<Metric(1, "m"), Metric(3, "n")>>}

RunStrategies == {"mean", "None"}

TestGroup(metrics, tags, retry_params, postfix) ==
    [metrics |-> metrics, tags |-> tags, retry_params |-> retry_params,
     postfix |-> postfix]

TestGroups ==
    {TestGroup(ml, <<>>, RetryParams(c, st), "None") :
        ml \in MetricLists, c \in 0..MaxRetry, st \in RunStrategies}

\* @test_case(messages=...) on a function called name that yields groups:
\* the suites it appends to test_suites
test_case(name, groups) ==
    [g \in 1..Len(groups) |->
        TestSuite(name, <<>> \o groups[g].tags, groups[g].retry_params,
                  "messages", <<>>, <<>>, "expected", groups[g].metrics)]

\* the units of work of a run of these suites when no request fails:
\* one request per attempt and one measure call per (attempt, metric) pair
Units(suites) ==
    SumSeq([i \in 1..Len(suites) |->
               suites[i].retry_params.count * (1 + Len(suites[i].metrics))])

\* the registry after the test modules are imported: two TestGroups, yielded
\* by one decorated function or by two
Registries ==
    {r \in {test_case(f, <<g>>) \o test_case(h, <<k>>) :
                f \in SuiteNames, h \in SuiteNames, g \in TestGroups, k \in TestGroups} :
        Units(r) <= MaxUnits}

Init ==
    /\ pc = "extract"
    /\ extractor = Extractor(<<>>, <<>>, <<>>)
    /\ pbar = 0
    /\ lock = 0
    /\ num_workers \in [collector : 1..MaxWorkers, evaluator : 1..MaxWorkers]
    /\ test_suites \in Registries
    /\ test_cases = <<>>
    /\ test_attempts = <<>>
    /\ collect_state = <<>>
    /\ test_attempts_executed = <<>>
    /\ evaluation_attempts = <<>>
    /\ evaluate_state = <<>>
    /\ evaluation_results = <<>>
    /\ test_cases_evaluated = <<>>
    /\ report = <<>>

Next ==
    \/ ExtractSuites
    \/ UnfoldSuites
    \/ UnfoldCases
    \/ \E i \in 1..Len(collect_state) : CollectStart(i)
    \/ \E i \in 1..Len(collect_state), r \in RequestOutcomes : CollectFinish(i, r)
    \/ CollectReturn
    \/ UnfoldAttempts
    \/ \E i \in 1..Len(evaluate_state) : EvaluateStart(i)
    \/ \E i \in 1..Len(evaluate_state), m \in MeasureOutcomes : EvaluateFinish(i, m)
    \/ EvaluateReturn
    \/ Aggregate
    \/ Save

Spec == Init /\ [][Next]_vars

----------------------------------------------------------------------------
(* The Aggregator on its own: aggregate_evaluation_results applied to a batch *)

RECURSIVE Ascending(_)
\* the numbers of S, smallest first
Ascending(S) ==
    IF S = {} THEN <<>>
    ELSE LET m == CHOOSE x \in S : \A y \in S : x <= y
         IN <<m>> \o Ascending(S \ {m})

\* the Evaluated Attempt the pipeline builds for attempt number of case,
\* scored by metric
Evaluated(case, number, metric, output, result) ==
    EvaluationAttemptEvaluated(
        EvaluationAttempt(
            TestAttemptExecuted(TestAttempt(case, number), output), metric),
        result)

\* scores 0.0, 0.5 and 1.0
AggScores == {<<0, 1>>, <<1, 2>>, <<1, 1>>}

AggResults == {EvaluationResult(sc, v, "reason") : sc \in AggScores, v \in Verdicts}

\* the one case of a suite s with an empty grid and the metric m
GroupCase(st) ==
    unfld_test_suite(TestSuite("s", <<>>, RetryParams(MaxGroup, st), "messages",
                               <<>>, <<>>, "expected", <<Metric(1, "m")>>))[1]

\* one group as the pipeline delivers it: the attempts S that survived
\* collection, in attempt order, each with the result f gives it for the
\* case's metric
\* the assistant's output of an attempt: consecutive attempts differ in it
AttemptOutput(number) == IF number % 2 = 0 THEN "answer" ELSE "other answer"

GroupBatch(st, S, f) ==
    LET case == GroupCase(st)
        numbers == Ascending(S)
    IN [i \in 1..Len(numbers) |->
           Evaluated(case, numbers[i], Metric(1, "m"), AttemptOutput(numbers[i]),
                     f[numbers[i]])]

InitBatch(batches) ==
    /\ pc = "aggregate"
    /\ extractor = Extractor(<<>>, <<>>, <<>>)
    /\ pbar = 0
    /\ lock = 0
    /\ num_workers = [collector |-> 1, evaluator |-> 1]
    /\ test_suites = <<>>
    /\ test_cases = <<>>
    /\ test_attempts = <<>>
    /\ collect_state = <<>>
    /\ test_attempts_executed = <<>>
    /\ evaluation_attempts = <<>>
    /\ evaluate_state = <<>>
    /\ evaluation_results \in batches
    /\ test_cases_evaluated = <<>>
    /\ report = <<>>

InitAgg ==
    \E st \in Strategies, S \in (SUBSET (0..(MaxGroup - 1))) \ {{}} :
        \E f \in [S -> AggResults] : InitBatch({GroupBatch(st, S, f)})

NextAgg == Aggregate

SpecAgg == InitAgg /\ [][NextAgg]_vars

\* a suite whose grid has a value, and whose metrics have a name, holding "]_["
MixSuite(st) ==
    TestSuite("s", <<>>, RetryParams(MaxRetry, st), "messages", <<>>,
              << <<"k", <<[t |-> "str", s |-> "v"], [t |-> "str", s |-> "v]_[a"]>> >> >>,
              "expected", <<Metric(1, "m"), Metric(2, "a]_[m")>>)

MixCases == UNION {Range(unfld_test_suite(MixSuite(st))) : st \in {"min", "max"}}

MixResults ==
    {EvaluationResult(<<1, 1>>, "passed", "good"),
     EvaluationResult(<<0, 1>>, "failed", "bad")}

MixMembers ==
    {Evaluated(c, n, c.metrics[m], "answer", r) :
        c \in MixCases, n \in 0..(MaxRetry - 1), m \in 1..2, r \in MixResults}

\* any batch of at most MaxEvals evaluated attempts, in any order
MixBatches == UNION {[1..k -> MixMembers] : k \in 0..MaxEvals}

InitMix == InitBatch(MixBatches)

NextMix == Aggregate

SpecMix == InitMix /\ [][NextMix]_vars

----------------------------------------------------------------------------
(* Collector.collect_test_results: what it returns *)

AfterCollect == pc \notin {"extract", "unfold_suites", "unfold_cases", "collect"}

ReturnedRequests ==
    {i \in 1..Len(collect_state) : collect_state[i].outcome.kind = "returned"}

RaisedRequests ==
    {i \in 1..Len(collect_state) : collect_state[i].outcome.kind = "raised"}

ValidRequests ==
    {i \in ReturnedRequests : collect_state[i].outcome.value \in AssistantOutputs}

\* C1 as stated: collect returns exactly one Executed Attempt for every attempt
\* whose request call returned and none for an attempt whose request raised, so
\* its output is as long as the input less the failed requests.
C1_OnePerReturnedRequest ==
    AfterCollect =>
        /\ Len(test_attempts_executed) = Cardinality(ReturnedRequests)
        /\ Len(test_attempts_executed) =
               Len(test_attempts) - Cardinality(RaisedRequests)

\* C1 as amended: collect returns, in input order, exactly one Executed Attempt
\* for every attempt whose request returned an output that validates as an
\* AssistantOutput, carrying that output, and none for an attempt whose
\* request raised or returned a value that fails validation; a dropped attempt
\* removes no other attempt's result.
C1_OnePerValidOutput ==
    AfterCollect =>
        LET kept == Ascending(ValidRequests)
        IN /\ Len(test_attempts_executed) = Len(kept)
           /\ Len(test_attempts_executed) =
                  Len(test_attempts) - Cardinality(RaisedRequests)
                  - Cardinality(ReturnedRequests \ ValidRequests)
           /\ \A k \in 1..Len(kept) :
                  /\ test_attempts_executed[k].name = test_attempts[kept[k]].name
                  /\ test_attempts_executed[k].number = test_attempts[kept[k]].number
                  /\ test_attempts_executed[k].actual_output =
                         collect_state[kept[k]].outcome.value

\* a collect that returned after an early request raised and a later one returned
C1_Witness ==
    /\ pc = "unfold_attempts"
    /\ \E i \in RaisedRequests : \E j \in ValidRequests : i < j

----------------------------------------------------------------------------
(* Evaluator.evaluate: what it returns *)

AfterEvaluate == pc \in {"aggregate", "save", "done", "raised"}

----------------------------------------------------------------------------
(* Aggregator._aggregate_evaluation_result on one group *)

\* the batch is one group, and its aggregation returned
OneGroupAggregated == pc = "save" /\ Len(test_cases_evaluated) = 1

GroupStrategy == evaluation_results[1].retry_params.aggregation_strategy

GroupAggregate == test_cases_evaluated[1].aggregated_result

\* the group's members whose verdict is not ERROR, and their results
GroupRemaining ==
    SelectSeq(evaluation_results, LAMBDA e : e.evaluation_result.verdict # "error")

RemainingScores == {GroupRemaining[i].evaluation_result.score : i \in 1..Len(GroupRemaining)}

RemainingWith(verdict) ==
    {i \in 1..Len(GroupRemaining) : GroupRemaining[i].evaluation_result.verdict = verdict}

\* C3: ERROR members are left out of the aggregated score and verdict while a
\* member is not ERROR; a group of ERROR members alone aggregates to
\* {0.0, ERROR, "All evaluation attempts failed"} under every strategy; so the
\* aggregated verdict is ERROR exactly when every member is ERROR.
C3_ErrorMembersExcluded ==
    /\ pc = "raised" => GroupRemaining # <<>>
    /\ pc = "save" =>
          /\ Len(test_cases_evaluated) = 1
          /\ GroupAggregate.verdict = "error" <=> GroupRemaining = <<>>
          /\ GroupRemaining = <<>> =>
                GroupAggregate = [score |-> <<0, 1>>, verdict |-> "error",
                                  reason |-> "All evaluation attempts failed"]
          /\ GroupRemaining # <<>> =>
                GroupAggregate = aggregate_evaluation_result(GroupRemaining).value

\* a group with an ERROR member of the lowest score and a PASSED member, aggregated
C3_Witness ==
    /\ OneGroupAggregated
    /\ GroupRemaining # <<>>
    /\ \E i \in 1..Len(evaluation_results) :
          /\ evaluation_results[i].evaluation_result.verdict = "error"
          /\ \A sc \in RemainingScores :
                FracLess(evaluation_results[i].evaluation_result.score, sc)

\* C4: under MIN, a group with a member that is not ERROR aggregates to the
\* smallest score of those members, to FAILED if one of them is FAILED and to
\* PASSED otherwise, with an empty reason.
C4_Min ==
    (OneGroupAggregated /\ GroupStrategy = "min" /\ GroupRemaining # <<>>) =>
        /\ GroupAggregate.score \in RemainingScores
        /\ \A sc \in RemainingScores : ~FracLess(sc, GroupAggregate.score)
        /\ GroupAggregate.verdict =
               IF RemainingWith("failed") # {} THEN "failed" ELSE "passed"
        /\ GroupAggregate.reason = ""

\* a MIN group of three members that are not ERROR, the lowest score last,
\* one of them FAILED
C4_Witness ==
    /\ OneGroupAggregated
    /\ GroupStrategy = "min"
    /\ Len(GroupRemaining) = 3
    /\ FracLess(GroupRemaining[3].evaluation_result.score,
                GroupRemaining[1].evaluation_result.score)
    /\ RemainingWith("failed") # {}
    /\ RemainingWith("passed") # {}

\* C5: under MAX, a group with a member that is not ERROR aggregates to the
\* largest score of those members, to PASSED if one of them is PASSED and to
\* FAILED otherwise.
C5_Max ==
    (OneGroupAggregated /\ GroupStrategy = "max" /\ GroupRemaining # <<>>) =>
        /\ GroupAggregate.score \in RemainingScores
        /\ \A sc \in RemainingScores : ~FracLess(GroupAggregate.score, sc)
        /\ GroupAggregate.verdict =
               IF RemainingWith("passed") # {} THEN "passed" ELSE "failed"

\* a MAX group of three members that are not ERROR, the highest score last,
\* one of them PASSED
C5_Witness ==
    /\ OneGroupAggregated
    /\ GroupStrategy = "max"
    /\ Len(GroupRemaining) = 3
    /\ FracLess(GroupRemaining[1].evaluation_result.score,
                GroupRemaining[3].evaluation_result.score)
    /\ RemainingWith("failed") # {}
    /\ RemainingWith("passed") # {}

\* C6: under MEAN and under MEDIAN, a group with a member that is not ERROR
\* aggregates to PASSED exactly when more of those members are PASSED than
\* FAILED; equal counts give FAILED.
C6_Majority ==
    (OneGroupAggregated /\ GroupStrategy \in {"mean", "median"}
        /\ GroupRemaining # <<>>) =>
        /\ GroupAggregate.verdict \in {"passed", "failed"}
        /\ GroupAggregate.verdict = "passed" <=>
               Cardinality(RemainingWith("passed")) > Cardinality(RemainingWith("failed"))

\* a MEAN or MEDIAN group with one PASSED, one FAILED and one ERROR member
C6_Witness ==
    /\ OneGroupAggregated
    /\ GroupStrategy \in {"mean", "median"}
    /\ Len(evaluation_results) = 3
    /\ Cardinality(RemainingWith("passed")) = 1
    /\ Cardinality(RemainingWith("failed")) = 1
    /\ GroupAggregate.verdict = "failed"

----------------------------------------------------------------------------
(* Aggregator.aggregate_evaluation_results: the groups *)

\* the (case name, metric name) pairs of the batch
BatchKeys == {<<e.name, get_name(e.metric)>> : e \in Range(evaluation_results)}

\* C7: the batch is partitioned by (case name, metric name): two attempts are
\* grouped together exactly when they agree on both names, one Evaluated Test
\* Case is emitted per distinct pair, and the group sizes add up to the length
\* of the batch.
C7_PartitionByNames ==
    pc = "save" =>
        /\ Len(test_cases_evaluated) = Cardinality(BatchKeys)
        /\ SumSeq([g \in 1..Len(test_cases_evaluated) |->
                      Len(test_cases_evaluated[g].evaluation_results)])
               = Len(evaluation_results)
        /\ \A i, j \in 1..Len(evaluation_results) :
              group_name(evaluation_results[i]) = group_name(evaluation_results[j])
                  <=> /\ evaluation_results[i].name = evaluation_results[j].name
                      /\ get_name(evaluation_results[i].metric)
                             = get_name(evaluation_results[j].metric)

\* every order in which the same Evaluated Attempts may be delivered
Deliveries(batch) ==
    {[i \in 1..Len(batch) |-> batch[p[i]]] :
        p \in {q \in [1..Len(batch) -> 1..Len(batch)] :
                  \A a, b \in 1..Len(batch) : q[a] = q[b] => a = b}}

DroppedOf(name) ==
    {i \in 1..Len(test_attempts) :
        test_attempts[i].name = name /\ collect_state[i].result = <<>>}

\* C9: at the end of a run every group has as many members as the retry count
\* of its test case less that case's attempts the Collector dropped; no group
\* has more members than the retry count, nor two members with the same
\* attempt number.
C9_GroupSizeIsRetryCountLessDropped ==
    pc \in {"save", "done"} =>
        \A k \in Range(group_names(evaluation_results, {})) :
            LET group == group_evaluations(evaluation_results, k)
            IN /\ Len(group) = group[1].retry_params.count
                                   - Cardinality(DroppedOf(group[1].name))
               /\ Len(group) <= group[1].retry_params.count
               /\ \A i, j \in 1..Len(group) :
                     group[i].number = group[j].number => i = j

\* C10: a run that made a request ends without raising and with a report
\* written by the Saver, whatever requests and metrics failed, also when every
\* attempt was dropped.
C10_RunEndsWithReport ==
    /\ pc # "raised"
    /\ (pc = "done" /\ test_attempts # <<>>) => report # <<>>

----------------------------------------------------------------------------
(* Workflow.execute: the stages and their worker pools *)

\* the tasks of a pool whose capability call (request or measure) has started
Started(tasks) == {i \in 1..Len(tasks) : tasks[i].st # "pending"}

\* the tasks of a pool whose capability call has returned or raised
Finished(tasks) == {i \in 1..Len(tasks) : tasks[i].st = "done"}

\* C11: the stages are full barriers: no measure call starts before every
\* request call of the run has finished, aggregation starts only after every
\* measure call has finished, and no unit of a later stage overlaps a unit of
\* an earlier stage.
C11_StageBarriers ==
    /\ Started(evaluate_state) # {} =>
           Finished(collect_state) = 1..Len(collect_state)
    /\ (pc \in {"save", "done", "raised"} \/ test_cases_evaluated # <<>>) =>
           Finished(evaluate_state) = 1..Len(evaluate_state)
    /\ Running(collect_state) = {} \/ Running(evaluate_state) = {}
    /\ Len(evaluate_state) > 0 => Len(collect_state) = Len(test_attempts)

\* a measure call in progress in a run that made several requests
C11_Witness ==
    /\ Running(evaluate_state) # {}
    /\ Len(collect_state) >= 2
    /\ \E i \in 1..Len(collect_state) : collect_state[i].outcome.kind = "raised"

C13_PoolBounded ==
    /\ Cardinality(Running(collect_state)) <= num_workers.collector
    /\ Cardinality(Running(evaluate_state)) <= num_workers.evaluator

\* a Collector pool of two workers, both busy, with attempts still waiting
C13_Witness ==
    /\ pc = "collect"
    /\ num_workers.collector = 2
    /\ Cardinality(Running(collect_state)) = 2
    /\ \E i \in 1..Len(collect_state) : collect_state[i].st = "pending"

----------------------------------------------------------------------------
(* The Extractor on its own: one suite with a parameter grid is unfolded *)

GridKeyNames == {"k", "j", "h"}

\* 1 and "1": two values that str() renders alike
GridValues == {[t |-> "int", s |-> "1"], [t |-> "str", s |-> "1"]}

\* the option lists of a key
GridOptionLists == UNION {[1..n -> GridValues] : n \in 0..MaxOptions}

\* the keys of a grid, in insertion order: a dict holds a key once
GridKeySeqs ==
    {ks \in UNION {[1..n -> GridKeyNames] : n \in 0..MaxKeys} :
        \A a, b \in 1..Len(ks) : ks[a] = ks[b] => a = b}

\* the suite's default api_params: it may set the grid key k and a key of its own
GridDefaults ==
    {<<>>, << <<"k", [t |-> "str", s |-> "d"]>> >>,
     << <<"t", [t |-> "str", s |-> "d"]>> >>,
     << <<"t", [t |-> "str", s |-> "d"]>>, <<"k", [t |-> "str", s |-> "d"]>> >>}

GridSuite(parameters, api_params) ==
    TestSuite("s", <<>>, RetryParams(MaxRetry, "mean"), "messages", api_params,
              parameters, "expected", <<Metric(1, "m")>>)

InitGrid ==
    /\ pc = "unfold_suites"
    /\ extractor = Extractor(<<>>, <<>>, <<>>)
    /\ pbar = 0
    /\ lock = 0
    /\ num_workers = [collector |-> 1, evaluator |-> 1]
    /\ \E ks \in GridKeySeqs, d \in GridDefaults :
          \E vs \in [1..Len(ks) -> GridOptionLists] :
              test_suites = <<GridSuite([i \in 1..Len(ks) |-> <<ks[i], vs[i]>>], d)>>
    /\ test_cases = <<>>
    /\ test_attempts = <<>>
    /\ collect_state = <<>>
    /\ test_attempts_executed = <<>>
    /\ evaluation_attempts = <<>>
    /\ evaluate_state = <<>>
    /\ evaluation_results = <<>>
    /\ test_cases_evaluated = <<>>
    /\ report = <<>>

NextGrid == UnfoldSuites \/ UnfoldCases

SpecGrid == InitGrid /\ [][NextGrid]_vars

----------------------------------------------------------------------------
(* ParameterGrid.expand *)

RECURSIVE ProdSeq(_)
ProdSeq(s) == IF s = <<>> THEN 1 ELSE Head(s) * ProdSeq(Tail(s))

\* the sizes of the option lists of a grid, in key order
GridSizes(parameters) == [i \in 1..Len(parameters) |-> Len(parameters[i][2])]

\* how many combinations pass before the option of key i changes
Stride(parameters, i) ==
    ProdSeq(SubSeq(GridSizes(parameters), i + 1, Len(parameters)))

\* the grid of the suite being unfolded, once it has been expanded
Expanded == pc \in {"unfold_cases", "collect"}

TheGrid == test_suites[1].parameter_grid

\* C14: expand returns the cartesian product of the option lists as a sequence:
\* n1*...*nk combinations (one empty combination for no keys), each mapping
\* every key to one option of that key, ordered by the list orders with the
\* first key varying slowest, and without repeats when no list has a repeat.
C14_ExpandIsProduct ==
    Expanded =>
        LET combos == expand(TheGrid)
            sizes == GridSizes(TheGrid)
        IN /\ Len(combos) = ProdSeq(sizes)
           /\ \A c \in 1..Len(combos) :
                 /\ Len(combos[c]) = Len(TheGrid)
                 /\ \A i \in 1..Len(TheGrid) :
                       combos[c][i] =
                           <<TheGrid[i][1],
                             TheGrid[i][2][(((c - 1) \div Stride(TheGrid, i))
                                                % sizes[i]) + 1]>>
           /\ (\A i \in 1..Len(TheGrid) :
                  \A a, b \in 1..sizes[i] :
                      TheGrid[i][2][a] = TheGrid[i][2][b] => a = b)
                  => \A c, d \in 1..Len(combos) : combos[c] = combos[d] => c = d

\* a grid of two keys with two different options each has been expanded
C14_Witness ==
    /\ Expanded
    /\ Len(TheGrid) = 2
    /\ \A i \in 1..2 : Len(TheGrid[i][2]) = 2 /\ TheGrid[i][2][1] # TheGrid[i][2][2]
    /\ Len(test_cases) = 4

----------------------------------------------------------------------------
(* Extractor.unfold_test_cases and Extractor.unfold_test_suites *)

AfterUnfoldCases == pc \notin {"extract", "unfold_suites", "unfold_cases"}

RetryCounts == [i \in 1..Len(test_cases) |-> test_cases[i].retry_params.count]

\* how many attempts come before those of case i
AttemptOffset(i) == SumSeq(SubSeq(RetryCounts, 1, i - 1))

C16_OneCasePerCombination ==
    Expanded =>
        LET combos == expand(TheGrid)
            defaults == test_suites[1].api_params
        IN /\ Len(test_cases) = ProdSeq(GridSizes(TheGrid))
           /\ Len(test_cases) = Len(combos)
           /\ \A c \in 1..Len(test_cases) :
                 LET api_params == test_cases[c].input.api_params
                 IN /\ DictKeys(api_params) = DictKeys(defaults) \cup DictKeys(combos[c])
                    /\ Len(api_params) = Cardinality(DictKeys(api_params))
                    /\ \A e \in Range(combos[c]) : e \in Range(api_params)
                    /\ \A e \in Range(defaults) :
                          e[1] \notin DictKeys(combos[c]) => e \in Range(api_params)

\* a suite whose defaults set k and t, unfolded over a grid that sets k and j
C16_Witness ==
    /\ Expanded
    /\ DictKeys(test_suites[1].api_params) = {"k", "t"}
    /\ DictKeys(TheGrid) = {"k", "j"}
    /\ Len(test_cases) >= 2

----------------------------------------------------------------------------
(* Evaluator.unfold_test_attempts, and what the stages keep of an attempt *)

AfterUnfoldAttempts ==
    pc \notin {"extract", "unfold_suites", "unfold_cases", "collect", "unfold_attempts"}

MetricCounts ==
    [j \in 1..Len(test_attempts_executed) |-> Len(test_attempts_executed[j].metrics)]

\* how many pairs come before those of executed attempt j
PairOffset(j) == SumSeq(SubSeq(MetricCounts, 1, j - 1))

\* C17: unfold_test_attempts returns one Evaluation Attempt for every
\* (executed attempt, metric of its metric list) pair and nothing else, in
\* order: its length is the sum of the attempts' metric counts.
C17_OnePairPerAttemptAndMetric ==
    AfterUnfoldAttempts =>
        /\ Len(evaluation_attempts) = SumSeq(MetricCounts)
        /\ \A j \in 1..Len(test_attempts_executed) :
              \A m \in 1..MetricCounts[j] :
                  LET e == evaluation_attempts[PairOffset(j) + m]
                      a == test_attempts_executed[j]
                  IN /\ e.metric = a.metrics[m]
                     /\ e.name = a.name
                     /\ e.number = a.number
                     /\ e.actual_output = a.actual_output

\* two executed attempts, one of them with two metrics, have been unfolded
C17_Witness ==
    /\ pc = "evaluate"
    /\ Len(test_attempts_executed) = 2
    /\ \E j \in 1..2 : MetricCounts[j] = 2
    /\ Len(evaluation_attempts) = 2

\* b carries the identity and the definition of a unchanged
SameAttempt(a, b) ==
    /\ b.name = a.name
    /\ b.number = a.number
    /\ b.tags = a.tags
    /\ b.retry_params = a.retry_params
    /\ b.input = a.input
    /\ b.expected_output = a.expected_output
    /\ b.metrics = a.metrics

----------------------------------------------------------------------------
(* ToolCallsAccuracy.measure *)

ToolCall(name, arguments) == [function |-> [name |-> name, arguments |-> arguments]]

\* ExactMatchToolCallDistance.measure: 1.0 or 0.0
ExactMatchToolCallDistance(first_call, second_call) ==
    IF /\ first_call.function.name = second_call.function.name
       /\ first_call.function.arguments = second_call.function.arguments
    THEN <<1, 1>> ELSE <<0, 1>>

FracAdd(a, b) == Frac(a[1] * b[2] + b[1] * a[2], a[2] * b[2])

\* the Enum class EvaluationVerdict called with the keyword arguments score,
\* verdict and reason: EnumType.__call__ takes no such keyword
EvaluationVerdict(score, verdict, reason) == Raised("TypeError")

\* the f-string of the reason reads self.score, which no field of the metric
\* defines, and t.name of a ToolCall, whose name is t.function.name
similarity_reason(self, score, expected_tool_calls, actual_tool_calls) ==
    Raised("AttributeError")

\* json.loads on the argument texts of the model; any other text is not JSON
json_loads(arguments) ==
    CASE arguments = "{}" -> Returned(<<>>)
      [] arguments = "{a: 1}" -> Returned(<< <<"a", "1">> >>)
      [] arguments = "{a: 1, b: 2}" -> Returned(<< <<"a", "1">>, <<"b", "2">> >>)
      [] OTHER -> Raised("JSONDecodeError")

\* Function.parse_arguments
parse_arguments(function) == json_loads(function.arguments)

\* dict.get(key): the value, or None
dict_get(d, key) ==
    IF key \in DictKeys(d)
    THEN (CHOOSE e \in Range(d) : e[1] = key)[2]
    ELSE "None"

\* f"{key}: {value_str}"
value_to_text(key, value) == <<key, ": ", value>>

\* Encoder.encode returns None, so indexing the vectors raises and the
\* except branch compares the two texts
calculate_text_similarity(text1, text2) == IF text1 = text2 THEN <<1, 1>> ELSE <<0, 1>>

\* one similarity per argument name of either call
compare_arguments(first_params, second_params) ==
    LET first_keys == [i \in 1..Len(first_params) |-> first_params[i][1]]
        second_keys == [i \in 1..Len(second_params) |-> second_params[i][1]]
        all_keys == first_keys \o
                    SelectSeq(second_keys, LAMBDA k : k \notin DictKeys(first_params))
    IN [i \in 1..Len(all_keys) |->
           LET first_value == dict_get(first_params, all_keys[i])
               second_value == dict_get(second_params, all_keys[i])
           IN IF first_value = "None" \/ second_value = "None" THEN <<0, 1>>
              ELSE calculate_text_similarity(value_to_text(all_keys[i], first_value),
                                             value_to_text(all_keys[i], second_value))]

\* aggregation_method "mean" (the default)
aggregate_similarities(similarities) ==
    IF similarities = <<>> THEN <<1, 1>> ELSE mean(similarities)

\* CosineSimilarityToolCallDistance.measure: a similarity, or the exception of
\* parsing the arguments of one of the calls
CosineSimilarityToolCallDistance(first_call, second_call) ==
    IF first_call.function.name # second_call.function.name THEN Returned(<<0, 1>>)
    ELSE LET first_params == parse_arguments(first_call.function)
             second_params == parse_arguments(second_call.function)
         IN IF first_params.exc # "none" THEN first_params
            ELSE IF second_params.exc # "none" THEN second_params
            ELSE IF first_params.value = <<>> /\ second_params.value = <<>>
                 THEN Returned(<<1, 1>>)
            ELSE IF first_params.value = <<>> \/ second_params.value = <<>>
                 THEN Returned(<<0, 1>>)
            ELSE Returned(aggregate_similarities(
                     compare_arguments(first_params.value, second_params.value)))

\* self.distance.measure(first_call, second_call)
distance_measure(distance, first_call, second_call) ==
    IF distance = "ExactMatchToolCallDistance"
    THEN Returned(ExactMatchToolCallDistance(first_call, second_call))
    ELSE CosineSimilarityToolCallDistance(first_call, second_call)

\* similarities[i][j] = self.distance.measure(expected i, actual j), each
\* with the exception it raised, if any
similarity_matrix(self, expected_tool_calls, actual_tool_calls) ==
    [i \in 1..Len(expected_tool_calls) |->
        [j \in 1..Len(actual_tool_calls) |->
            distance_measure(self.distance, expected_tool_calls[i],
                             actual_tool_calls[j])]]

\* the calls of self.distance.measure, in the order of the two loops, that raise
raising_pairs(similarities) ==
    UNION {{<<i, j>> : j \in {k \in 1..Len(similarities[i]) :
                                   similarities[i][k].exc # "none"}} :
           i \in 1..Len(similarities)}

RECURSIVE best_match(_, _, _, _)
\* the inner loop over j of the greedy matching; best.j = 0 stands for -1
best_match(row, j, used_actual_indices, best) ==
    IF j > Len(row) THEN best
    ELSE IF j \in used_actual_indices
         THEN best_match(row, j + 1, used_actual_indices, best)
         ELSE IF FracLess(best.similarity, row[j])
              THEN best_match(row, j + 1, used_actual_indices,
                              [similarity |-> row[j], j |-> j])
              ELSE best_match(row, j + 1, used_actual_indices, best)

RECURSIVE greedy_matching(_, _, _, _, _)
\* the outer loop over i: the total similarity, the actual calls used and,
\* for each expected call in turn, the best_j it ended with
greedy_matching(similarities, i, used_actual_indices, total_simiarity, best_js) ==
    IF i > Len(similarities)
    THEN [total_simiarity |-> total_simiarity,
          used_actual_indices |-> used_actual_indices,
          best_js |-> best_js]
    ELSE LET best == best_match(similarities[i], 1, used_actual_indices,
                                [similarity |-> <<0, 1>>, j |-> 0])
         IN IF best.j # 0
            THEN greedy_matching(similarities, i + 1,
                                 used_actual_indices \cup {best.j},
                                 FracAdd(total_simiarity, best.similarity),
                                 Append(best_js, best.j))
            ELSE greedy_matching(similarities, i + 1, used_actual_indices,
                                 total_simiarity, Append(best_js, best.j))

Max2(a, b) == IF a >= b THEN a ELSE b

\* the matrix of the similarities that were returned
similarity_values(similarities) ==
    [i \in 1..Len(similarities) |->
        [j \in 1..Len(similarities[i]) |-> similarities[i][j].value]]

\* total_simiarity / max(len(expected_tool_calls), len(actual_tool_calls))
similarity_score(self, expected_tool_calls, actual_tool_calls) ==
    LET similarities == similarity_values(
            similarity_matrix(self, expected_tool_calls, actual_tool_calls))
        t == greedy_matching(similarities, 1, {}, <<0, 1>>, <<>>).total_simiarity
    IN Frac(t[1], t[2] * Max2(Len(expected_tool_calls), Len(actual_tool_calls)))

\* the body of the try statement of measure, with the calls of
\* self.distance.measure it made
measure_try(self, expected, actual) ==
    LET expected_tool_calls == expected.tools_called
        actual_tool_calls == actual.tools_called
        similarities == similarity_matrix(self, expected_tool_calls, actual_tool_calls)
        raising == raising_pairs(similarities)
    IN IF Len(expected_tool_calls) = 0 /\ Len(actual_tool_calls) = 0
       THEN [result |-> Returned(EvaluationResult(<<1, 1>>, "passed",
                           "No tools expected or called - perfect match")),
             distance_calls |-> 0]
       ELSE IF Len(expected_tool_calls) # Len(actual_tool_calls) /\ self.strict_mode
       THEN [result |-> EvaluationVerdict(<<0, 1>>, "failed", "Tool count mismatch"),
             distance_calls |-> 0]
       ELSE IF raising # {}
       THEN LET first == CHOOSE p \in raising : \A q \in raising :
                             p[1] < q[1] \/ (p[1] = q[1] /\ p[2] <= q[2])
            IN [result |-> similarities[first[1]][first[2]],
                distance_calls |-> (first[1] - 1) * Len(actual_tool_calls) + first[2]]
       ELSE LET score == similarity_score(self, expected_tool_calls, actual_tool_calls)
                reason == similarity_reason(self, score, expected_tool_calls,
                                            actual_tool_calls)
            IN [result |->
                    IF reason.exc # "none" THEN reason
                    ELSE Returned(EvaluationResult(score,
                             IF FracLess(score, self.threshold) THEN "failed"
                             ELSE "passed", reason.value)),
                distance_calls |-> Len(expected_tool_calls) * Len(actual_tool_calls)]

\* ToolCallsAccuracy.measure(self, input, expected, actual): what it returns or
\* raises; an exception of the try body is handled by calling EvaluationVerdict
ToolCallsAccuracy_measure(self, input, expected, actual) ==
    LET body == measure_try(self, expected, actual)
    IN [result |-> IF body.result.exc = "none" THEN body.result
                   ELSE EvaluationVerdict(<<0, 1>>, "error", "Error during evaluation"),
        distance_calls |-> body.distance_calls]

----------------------------------------------------------------------------
(* The Evaluator on one pair whose metric is a ToolCallsAccuracy *)

\* calls of two functions; the arguments of one call are not JSON
ToolCalls ==
    {ToolCall("f", "{}"), ToolCall("f", "{a: 1}"), ToolCall("f", "{a: 1, b: 2}"),
     ToolCall("f", "{a: "), ToolCall("g", "{}")}

ToolCallDistances == {"ExactMatchToolCallDistance", "CosineSimilarityToolCallDistance"}

ToolCallLists == UNION {[1..n -> ToolCalls] : n \in 0..MaxCalls}

\* thresholds 0.5 (the default) and 1.0
Thresholds == {<<1, 2>>, <<1, 1>>}

\* a concrete subclass of ToolCallsAccuracy (whose measure is marked abstract)
\* that names itself and whose measure is ToolCallsAccuracy.measure
ToolCallsAccuracy(distance, threshold, strict_mode) ==
    [id |-> 1, name |-> "Tool Calls Accuracy",
     distance |-> distance, threshold |-> threshold,
     include_reason |-> TRUE, strict_mode |-> strict_mode]

AssistantOutput(tools_called) ==
    [output |-> "", tools_called |-> tools_called, context |-> <<>>]

\* what the Evaluator sees of the metric's measure call
tool_calls_measured(evaluation_attempt) ==
    LET r == ToolCallsAccuracy_measure(evaluation_attempt.metric,
                 evaluation_attempt.input, evaluation_attempt.expected_output,
                 evaluation_attempt.actual_output)
    IN IF r.result.exc = "none"
       THEN [kind |-> "returned", value |-> r.result.value,
             distance_calls |-> r.distance_calls]
       ELSE [kind |-> "raised", value |-> [message |-> r.result.exc],
             distance_calls |-> r.distance_calls]

ToolsAttempt(metric, expected_tool_calls, actual_tool_calls) ==
    EvaluationAttempt(
        TestAttemptExecuted(
            TestAttempt([name |-> "s_[]", tags |-> <<>>,
                         retry_params |-> RetryParams(1, "mean"),
                         input |-> [messages |-> "messages", api_params |-> <<>>],
                         expected_output |-> AssistantOutput(expected_tool_calls),
                         metrics |-> <<metric>>], 0),
            AssistantOutput(actual_tool_calls)),
        metric)

InitTools ==
    /\ pc = "evaluate"
    /\ extractor = Extractor(<<>>, <<>>, <<>>)
    /\ pbar = 0
    /\ lock = 0
    /\ num_workers = [collector |-> 1, evaluator |-> 1]
    /\ test_suites = <<>>
    /\ test_cases = <<>>
    /\ test_attempts = <<>>
    /\ collect_state = <<>>
    /\ test_attempts_executed = <<>>
    /\ \E distance \in ToolCallDistances, threshold \in Thresholds,
          strict_mode \in BOOLEAN :
          \E expected_tool_calls \in ToolCallLists, actual_tool_calls \in ToolCallLists :
              evaluation_attempts =
                  <<ToolsAttempt(ToolCallsAccuracy(distance, threshold, strict_mode),
                                 expected_tool_calls, actual_tool_calls)>>
    /\ evaluate_state = <<Pending>>
    /\ evaluation_results = <<>>
    /\ test_cases_evaluated = <<>>
    /\ report = <<>>

NextTools ==
    \/ \E i \in 1..Len(evaluate_state) : EvaluateStart(i)
    \/ \E i \in 1..Len(evaluate_state) :
          EvaluateFinish(i, tool_calls_measured(evaluation_attempts[i]))
    \/ EvaluateReturn

SpecTools == InitTools /\ [][NextTools]_vars

\* the pair whose measure call has finished, and what was given to it
Measured == evaluate_state # <<>> /\ evaluate_state[1].st = "done"

ExpectedCalls == evaluation_attempts[1].expected_output.tools_called

ActualCalls == evaluation_attempts[1].actual_output.tools_called

MeasureOutcome == evaluate_state[1].outcome

\* C19: in strict mode, given expected and actual call lists of different
\* lengths, measure returns the result {score 0.0, verdict FAILED} without
\* invoking the distance function on any pair.
C19_StrictMismatchFails ==
    (/\ Measured
     /\ evaluation_attempts[1].metric.strict_mode
     /\ Len(ExpectedCalls) # Len(ActualCalls)) =>
        /\ MeasureOutcome.distance_calls = 0
        /\ MeasureOutcome.kind = "returned"
        /\ MeasureOutcome.value.score = <<0, 1>>
        /\ MeasureOutcome.value.verdict = "failed"

\* C20: when the lists are not both empty and the mode is not strict or the
\* lengths are equal, measure returns a result whose score is the similarity
\* accumulated by the greedy matching divided by the longer list's length and
\* whose verdict is PASSED exactly when the score is at least the threshold.
C20_ScoreIsMatchedSimilarity ==
    (/\ Measured
     /\ Len(ExpectedCalls) + Len(ActualCalls) > 0
     /\ \/ ~evaluation_attempts[1].metric.strict_mode
        \/ Len(ExpectedCalls) = Len(ActualCalls)) =>
        /\ MeasureOutcome.kind = "returned"
        /\ MeasureOutcome.value.score =
               similarity_score(evaluation_attempts[1].metric, ExpectedCalls, ActualCalls)
        /\ MeasureOutcome.value.verdict =
               IF FracLess(MeasureOutcome.value.score,
                           evaluation_attempts[1].metric.threshold)
               THEN "failed" ELSE "passed"

\* the measure call built the similarity matrix and a call of the distance
\* function raised
DistanceRaised ==
    /\ Measured
    /\ Len(ExpectedCalls) + Len(ActualCalls) > 0
    /\ \/ ~evaluation_attempts[1].metric.strict_mode
       \/ Len(ExpectedCalls) = Len(ActualCalls)
    /\ raising_pairs(similarity_matrix(evaluation_attempts[1].metric,
                                       ExpectedCalls, ActualCalls)) # {}

\* C21: when the distance function raises inside ToolCallsAccuracy.measure,
\* measure returns an EvaluationResult with verdict ERROR and propagates no
\* exception to its caller.
C21_DistanceErrorIsReturned ==
    DistanceRaised =>
        /\ MeasureOutcome.kind = "returned"
        /\ MeasureOutcome.value.verdict = "error"

----------------------------------------------------------------------------
(* The Aggregator on an empty list *)

AfterAggregate == pc \in {"save", "done", "raised"}

\* C22 as stated: an empty evaluated-result list reaching the Aggregator's
\* aggregate operation makes it raise an error instead of returning a normal,
\* empty value.
C22_EmptyListFailsFast ==
    (AfterAggregate /\ evaluation_results = <<>>) => pc = "raised"

\* C22, amended: aggregate_evaluation_results given an empty list returns an
\* empty list of Evaluated Test Cases and raises nothing; only the aggregation
\* of one group, given an empty group, raises ValueError.
C22_EmptyListReturnsEmpty ==
    /\ aggregate_evaluation_result(<<>>) = Raised("ValueError")
    /\ (AfterAggregate /\ evaluation_results = <<>>) =>
           /\ pc # "raised"
           /\ test_cases_evaluated = <<>>

\* the Aggregator returned after a run whose attempts left no result
C22_Witness ==
    /\ pc = "save"
    /\ test_attempts # <<>>
    /\ evaluation_results = <<>>

----------------------------------------------------------------------------
(* The members of a group *)

\* the groups the Aggregator forms of the results it was given
Groups ==
    {group_evaluations(evaluation_results, k) :
        k \in Range(group_names(evaluation_results, {}))}

\* C23: in every group of a pipeline run all members carry the same retry
\* parameters (retry count and aggregation strategy), so the strategy of the
\* group's first member is the strategy configured for each of its members.
C23_GroupSharesRetryParams ==
    AfterAggregate =>
        \A group \in Groups : \A i \in 1..Len(group) :
            /\ group[i].retry_params = group[1].retry_params
            /\ group[i].retry_params.aggregation_strategy =
                   group[1].retry_params.aggregation_strategy

----------------------------------------------------------------------------
(* The per-attempt record of an Evaluated Test Case *)

----------------------------------------------------------------------------
(* The greedy matching *)

\* the measure call ran the greedy matching
Matched ==
    /\ Measured
    /\ Len(ExpectedCalls) + Len(ActualCalls) > 0
    /\ \/ ~evaluation_attempts[1].metric.strict_mode
       \/ Len(ExpectedCalls) = Len(ActualCalls)
    /\ ~DistanceRaised

Similarities ==
    similarity_values(similarity_matrix(evaluation_attempts[1].metric,
                                        ExpectedCalls, ActualCalls))

\* for each expected call, the actual call assigned to it (0: none)
Matches == greedy_matching(Similarities, 1, {}, <<0, 1>>, <<>>).best_js

\* the actual calls not assigned to an expected call before the i-th
UnusedAt(i) == (1..Len(ActualCalls)) \ {Matches[h] : h \in 1..(i - 1)}

\* C25: in the greedy matching the expected calls are processed in their
\* order, each is assigned the unused actual call of highest similarity, the
\* lowest index among equal similarities, which is then used; an expected call
\* finds no match only when no unused actual call remains, and no actual call
\* is assigned to two expected calls.
C25_GreedyAssignsBestUnused ==
    Matched =>
        /\ Len(Matches) = Len(ExpectedCalls)
        /\ \A i \in 1..Len(ExpectedCalls) :
              IF UnusedAt(i) = {} THEN Matches[i] = 0
              ELSE /\ Matches[i] \in UnusedAt(i)
                   /\ \A j \in UnusedAt(i) :
                         /\ ~FracLess(Similarities[i][Matches[i]], Similarities[i][j])
                         /\ Similarities[i][j] = Similarities[i][Matches[i]] =>
                                Matches[i] <= j
        /\ \A i, h \in 1..Len(ExpectedCalls) :
              (i # h /\ Matches[i] # 0) => Matches[i] # Matches[h]

----------------------------------------------------------------------------
(* The Extractor's filters on a registry of suites with names and tags *)

FilterNames == {<<"a">>, <<"A">>, <<"a", "b">>}

\* the tags "x" and "y"
FilterTagLists == {<<>>, << <<"x">> >>, << <<"y">> >>, << <<"x">>, <<"y">> >>}

FilterSuites ==
    {TestSuite(name, tags, RetryParams(1, "mean"), "messages", <<>>, <<>>,
               "expected", <<Metric(1, "m")>>) :
        name \in FilterNames, tags \in FilterTagLists}

\* --keyword: unset, "a", "A" or "b"
Keywords == {<<>>, <<"a">>, <<"A">>, <<"b">>}

\* --tags and --exclude-tags: unset, "x" or "x,y"
TagOptions == {<<>>, <<"x">>, <<"x", ",", "y">>}

InitFilter ==
    /\ pc = "extract"
    /\ \E keyword \in Keywords, tags \in TagOptions, exclude_tags \in TagOptions :
          extractor = Extractor(keyword, tags, exclude_tags)
    /\ pbar = 0
    /\ lock = 0
    /\ num_workers = [collector |-> 1, evaluator |-> 1]
    /\ \E n \in 0..MaxSuites : \E registered \in [1..n -> FilterSuites] :
          test_suites = registered
    /\ test_cases = <<>>
    /\ test_attempts = <<>>
    /\ collect_state = <<>>
    /\ test_attempts_executed = <<>>
    /\ evaluation_attempts = <<>>
    /\ evaluate_state = <<>>
    /\ evaluation_results = <<>>
    /\ test_cases_evaluated = <<>>
    /\ report = <<>>

NextFilter == ExtractSuites

SpecFilter == InitFilter /\ [][NextFilter]_vars

\* the suite satisfies every filter that is set
SatisfiesFilters(suite) ==
    /\ extractor.keyword # <<>> => Contains(lower(extractor.keyword), suite.name)
    /\ extractor.tags # <<>> => any_tag_in(suite, extractor.tags)
    /\ extractor.exclude_tags # <<>> => ~any_tag_in(suite, extractor.exclude_tags)

\* C26: for every combination of the keyword, tags and exclude-tags filters
\* being set or unset, exctract_test_suites returns without raising exactly the
\* registered suites that satisfy every filter that is set, each at most as
\* often as it was registered and in registration order, and it does so before
\* any suite is expanded into cases.
C26_FiltersSelectSuites ==
    [][pc = "extract" =>
          /\ pc' = "unfold_suites"
          /\ test_suites' = SelectSeq(test_suites, SatisfiesFilters)
          /\ test_cases' = <<>>]_vars

----------------------------------------------------------------------------
(* The number of Evaluated Test Cases *)

\* C27: every emitted group has at least one member, a test case without a
\* surviving attempt or without a metric yields no Evaluated Test Case, and
\* the number of emitted Evaluated Test Cases is the number of distinct
\* (case name, metric name) keys among the results of the surviving attempts.
C27_OneEntryPerSurvivingKey ==
    pc = "save" =>
        /\ \A g \in 1..Len(test_cases_evaluated) :
              /\ Len(test_cases_evaluated[g].evaluation_results) >= 1
              /\ \E e \in Range(evaluation_results) :
                    e.name = test_cases_evaluated[g].name
        /\ Len(test_cases_evaluated) = Cardinality(BatchKeys)

----------------------------------------------------------------------------
(* The strategies the data model accepts *)

\* C28: for every aggregation strategy RetryParams accepts (MIN, MAX, MEAN,
\* MEDIAN or None) and every non-empty group, the Aggregator returns an
\* aggregated result without raising, whose verdict is PASSED, FAILED or ERROR.
C28_EveryStrategyAggregates ==
    (AfterAggregate /\ evaluation_results # <<>>) =>
        /\ pc # "raised"
        /\ Len(test_cases_evaluated) = 1
        /\ GroupAggregate.verdict \in {"passed", "failed", "error"}

----------------------------------------------------------------------------
(* The Collector's workers step by step, with the lock and the progress bar *)

\* the position of the worker of task i: "describe", "update" and "except"
\* wait for the lock, "describing", "updating" and "excepting" hold it
collect_others ==
    <<pc, extractor, num_workers, test_suites, test_cases, test_attempts,
      test_attempts_executed, evaluation_attempts, evaluate_state,
      evaluation_results, test_cases_evaluated, report>>

\* a thread of the pool takes the task and reaches `with lock:` of line 21
WorkerStart(i) ==
    /\ pc = "collect"
    /\ MayStart(collect_state, i, num_workers.collector)
    /\ collect_state' = [collect_state EXCEPT ![i].st = "describe"]
    /\ UNCHANGED <<collect_others, pbar, lock>>

\* lock.__enter__: at one of the three `with lock:` statements
WorkerAcquire(i) ==
    /\ pc = "collect"
    /\ collect_state[i].st \in {"describe", "update", "except"}
    /\ lock = 0
    /\ lock' = i
    /\ collect_state' = [collect_state EXCEPT ![i].st =
           CASE @ = "describe" -> "describing"
             [] @ = "update" -> "updating"
             [] @ = "except" -> "excepting"]
    /\ UNCHANGED <<collect_others, pbar>>

\* pbar.set_description(...), then the lock is released
WorkerDescribe(i) ==
    /\ pc = "collect"
    /\ collect_state[i].st = "describing"
    /\ lock = i
    /\ lock' = 0
    /\ collect_state' = [collect_state EXCEPT ![i].st = "request"]
    /\ UNCHANGED <<collect_others, pbar>>

\* self.api_client.request(test_attempt.input) returns or raises
WorkerRequest(i, response) ==
    /\ pc = "collect"
    /\ collect_state[i].st = "request"
    /\ collect_state' = [collect_state EXCEPT
           ![i].st = IF response.kind = "raised" THEN "except" ELSE "update",
           ![i].outcome = response,
           ![i].calls = @ + 1]
    /\ UNCHANGED <<collect_others, pbar, lock>>

\* pbar.update() and pbar.set_postfix_str(...) after the request returned
WorkerUpdate(i) ==
    /\ pc = "collect"
    /\ collect_state[i].st = "updating"
    /\ lock = i
    /\ pbar' = pbar + 1
    /\ lock' = 0
    /\ collect_state' = [collect_state EXCEPT ![i].st = "validate"]
    /\ UNCHANGED collect_others

\* model_dump and TestAttemptExecuted.model_validate: the worker returns the
\* Executed Attempt, or the ValidationError takes it to the except branch
WorkerValidate(i) ==
    /\ pc = "collect"
    /\ collect_state[i].st = "validate"
    /\ LET result == worker(test_attempts[i], collect_state[i].outcome)
       IN collect_state' = [collect_state EXCEPT
              ![i].st = IF result = <<>> THEN "except" ELSE "done",
              ![i].result = result]
    /\ UNCHANGED <<collect_others, pbar, lock>>

\* the except branch: pbar.set_postfix_str(...), pbar.update(), return None
WorkerExcept(i) ==
    /\ pc = "collect"
    /\ collect_state[i].st = "excepting"
    /\ lock = i
    /\ pbar' = pbar + 1
    /\ lock' = 0
    /\ collect_state' = [collect_state EXCEPT ![i].st = "done", ![i].result = <<>>]
    /\ UNCHANGED collect_others

\* collect_test_results is called with the attempts of one case
InitCollect ==
    /\ pc = "collect"
    /\ extractor = Extractor(<<>>, <<>>, <<>>)
    /\ pbar = 0
    /\ lock = 0
    /\ num_workers \in [collector : 1..MaxWorkers, evaluator : {1}]
    /\ \E count \in 1..MaxRetry :
          /\ test_suites = <<TestSuite("s", <<>>, RetryParams(count, "mean"),
                                       "messages", <<>>, <<>>, "expected",
                                       <<Metric(1, "m")>>)>>
          /\ test_cases = unfold_test_suites(test_suites)
          /\ test_attempts = unfold_test_cases(test_cases)
          /\ collect_state = [i \in 1..count |-> Pending]
    /\ test_attempts_executed = <<>>
    /\ evaluation_attempts = <<>>
    /\ evaluate_state = <<>>
    /\ evaluation_results = <<>>
    /\ test_cases_evaluated = <<>>
    /\ report = <<>>

NextCollect ==
    \/ \E i \in 1..Len(collect_state) : WorkerStart(i)
    \/ \E i \in 1..Len(collect_state) : WorkerAcquire(i)
    \/ \E i \in 1..Len(collect_state) : WorkerDescribe(i)
    \/ \E i \in 1..Len(collect_state), r \in RequestOutcomes : WorkerRequest(i, r)
    \/ \E i \in 1..Len(collect_state) : WorkerUpdate(i)
    \/ \E i \in 1..Len(collect_state) : WorkerValidate(i)
    \/ \E i \in 1..Len(collect_state) : WorkerExcept(i)
    \/ CollectReturn

SpecCollect == InitCollect /\ [][NextCollect]_vars

\* C29: in a Collector run the progress counter is advanced only while the
\* lock is held and exactly once per input attempt, whether the attempt
\* succeeds, its request raises, or building the Executed Attempt fails; when
\* collect returns, the counter equals the number of input attempts under
\* every interleaving of the workers.
C29_ProgressCountsAttempts ==
    /\ [][pbar' # pbar => (lock # 0 /\ pbar' = pbar + 1)]_vars
    /\ [](pbar <= Cardinality({i \in 1..Len(collect_state) :
                                  collect_state[i].outcome.kind # "none"}))
    /\ [](AfterCollect => pbar = Len(test_attempts))

----------------------------------------------------------------------------
(* The names of the cases of one suite *)

\* C30: within one suite, distinct parameter combinations of the grid yield
\* Test Cases with distinct names, so that the attempts of two different cases
\* of the suite never share an aggregation group.
C30_DistinctCombinationsDistinctNames ==
    Expanded =>
        /\ Len(test_cases) = Len(expand(TheGrid))
        /\ \A i, j \in 1..Len(test_cases) :
              expand(TheGrid)[i] # expand(TheGrid)[j] =>
                  test_cases[i].name # test_cases[j].name

====
